---- MODULE Spec2Model ----
(***************************************************************************)
(* Wrestling character creator API (CyberFights/wrestling-game).          *)
(*                                                                         *)
(* The module models src/server.js: the preset catalog loader, the        *)
(* selection validator, the stat deriver and the JSON file store behind   *)
(* the /api/characters routes.  Every `await` of a handler is a           *)
(* suspension point, so a handler is a sequence of atomic steps between   *)
(* which the steps of other in-flight requests may run.                   *)
(*                                                                         *)
(* The synchronous variant of the server, src/unnamed/part_000, is        *)
(* modelled beside it (SpecSync): its handlers run to their end in one    *)
(* step, and it keeps the catalog in the module-level variable PRESETS.   *)
(***************************************************************************)
EXTENDS Integers, Sequences, FiniteSets, TLC

(***************************************************************************)
(* JavaScript values.  Ids may be strings or numbers and a missing field  *)
(* reads as undefined; String(), truthiness and Array.isArray are         *)
(* modelled on the tagged value.                                           *)
(***************************************************************************)
Undef == [t |-> "undef", s |-> "", n |-> 0, a |-> <<>>]

S(str) == [t |-> "str", s |-> str, n |-> 0, a |-> <<>>]

N(num) == [t |-> "num", s |-> "", n |-> num, a |-> <<>>]

Arr(seq) == [t |-> "arr", s |-> "", n |-> 0, a |-> seq]

Digits == <<"0", "1", "2", "3", "4", "5", "6", "7", "8", "9">>

\* String(v) for the values above (numbers 0..9 only)
String(v) ==
  CASE v.t = "str" -> v.s
    [] v.t = "num" -> Digits[v.n + 1]
    [] v.t = "undef" -> "undefined"
    [] OTHER -> "[array]"

\* JavaScript truthiness
Truthy(v) ==
  CASE v.t = "str" -> v.s # ""
    [] v.t = "num" -> v.n # 0
    [] v.t = "undef" -> FALSE
    [] OTHER -> TRUE

IsArray(v) == v.t = "arr"

(***************************************************************************)
(* Stat blocks: a JavaScript object from stat names to numbers is a       *)
(* function whose domain is the set of its own keys.                      *)
(***************************************************************************)
NoStats == [k \in {} |-> 0]

\* (stats[k] || 0)
StatOr0(stats, k) == IF k \in DOMAIN stats THEN stats[k] ELSE 0

Stat1(k, v) == [x \in {k} |-> v]

\* a catalog item; an absent baseStats / statBonuses object is the empty one,
\* an absent damage / armor scalar is 0 (the code reads both the same way)
Item(id, base, bonus, dmg, arm) ==
  [id |-> id, baseStats |-> base, statBonuses |-> bonus, damage |-> dmg, armor |-> arm]

Plain(id) == Item(id, NoStats, NoStats, 0, 0)

(***************************************************************************)
(* Objects with optional keys (the presets document, a selection) are     *)
(* functions whose domain is the set of keys present.                     *)
(***************************************************************************)
Put(obj, k, v) == [x \in DOMAIN obj \cup {k} |-> IF x = k THEN v ELSE obj[x]]

\* presets[key], with the `list = []` default of findById for a missing key
Cat(presets, k) == IF k \in DOMAIN presets THEN presets[k] ELSE <<>>

\* a file on disk: missing, unparsable text (empty, truncated or torn), or
\* the JSON value it holds
Missing == [st |-> "missing", val |-> <<>>]

Unparsable == [st |-> "partial", val |-> <<>>]

Json(v) == [st |-> "json", val |-> v]

\* a file that holds a falsy JSON value (null, 0, false, "")
JsonFalsy == [st |-> "falsy", val |-> <<>>]

\* the keys server.js requires after alias normalisation
RequiredKeys ==
  <<"archetypes", "attire", "masks", "accessories", "heights", "bodyTypes", "skinColors">>

\* one legacy alias: presets[canon] = presets[legacy] when canon is absent
Alias(presets, canon, legacy) ==
  IF canon \notin DOMAIN presets /\ legacy \in DOMAIN presets
    THEN Put(presets, canon, presets[legacy])
    ELSE presets

\* loadPresets: ok = FALSE stands for the thrown Error
loadPresets(file) ==
  IF file.st # "json"
    THEN [ok |-> FALSE, presets |-> [k \in {} |-> <<>>]]
    ELSE LET p1 == Alias(file.val, "archetypes", "classes")
             p2 == Alias(p1, "attire", "weapons")
             p3 == Alias(p2, "masks", "armors")
             p4 == Alias(p3, "accessories", "items")
         IN  IF \E i \in 1..Len(RequiredKeys) : RequiredKeys[i] \notin DOMAIN p4
               THEN [ok |-> FALSE, presets |-> [k \in {} |-> <<>>]]
               ELSE [ok |-> TRUE, presets |-> p4]

\* index of the first item whose String(id) equals String(id), 0 when none
FindIndexById(list, id) ==
  IF \E i \in 1..Len(list) : String(list[i].id) = String(id)
    THEN CHOOSE i \in 1..Len(list) :
           /\ String(list[i].id) = String(id)
           /\ \A j \in 1..(i - 1) : String(list[j].id) # String(id)
    ELSE 0

\* findById: found = FALSE stands for undefined
findById(list, id) ==
  LET i == FindIndexById(list, id)
  IN  IF i = 0 THEN [found |-> FALSE, item |-> Plain(Undef)]
               ELSE [found |-> TRUE, item |-> list[i]]

(***************************************************************************)
(* A selection: an object of id fields, or some value that is no object.  *)
(***************************************************************************)
SelFields ==
  {"archetypeId", "attireId", "maskId", "accessoryIds", "heightId", "bodyTypeId",
   "skinColorId"}

NoFields == [k \in {} |-> Undef]

SelObj(o) == [t |-> "obj", s |-> "", o |-> o]

SelStr(str) == [t |-> "str", s |-> str, o |-> NoFields]

SelUndef == [t |-> "undef", s |-> "", o |-> NoFields]

\* selection.field
Field(selection, k) == IF k \in DOMAIN selection.o THEN selection.o[k] ELSE Undef

SelTruthy(selection) == selection.t = "obj" \/ (selection.t = "str" /\ selection.s # "")

Err(msg, arg) == [msg |-> msg, arg |-> arg]

\* the error of one single-id field, or none
FieldError(presets, selection, cat, field, msg) ==
  IF findById(Cat(presets, cat), Field(selection, field)).found
    THEN <<>>
    ELSE <<Err(msg, "")>>

\* the errors of the accessoryIds loop, in order
AccessoryErrors(presets, ids) ==
  LET bad == SelectSeq(ids, LAMBDA id : ~findById(Cat(presets, "accessories"), id).found)
  IN  [i \in 1..Len(bad) |-> Err("Invalid accessoryId: ", String(bad[i]))]

validateSelection(presets, selection) ==
  IF selection.t # "obj"
    THEN <<Err("Selection must be an object", "")>>
    ELSE LET acc == Field(selection, "accessoryIds")
         IN  FieldError(presets, selection, "archetypes", "archetypeId", "Invalid archetypeId")
             \o FieldError(presets, selection, "attire", "attireId", "Invalid attireId")
             \o FieldError(presets, selection, "masks", "maskId", "Invalid maskId")
             \o (IF Truthy(acc) /\ ~IsArray(acc)
                   THEN <<Err("accessoryIds must be an array", "")>>
                   ELSE IF Truthy(acc) THEN AccessoryErrors(presets, acc.a) ELSE <<>>)
             \o FieldError(presets, selection, "heights", "heightId", "Invalid heightId")
             \o FieldError(presets, selection, "bodyTypes", "bodyTypeId", "Invalid bodyTypeId")
             \o FieldError(presets, selection, "skinColors", "skinColorId", "Invalid skinColorId")

(***************************************************************************)
(* deriveStats                                                            *)
(***************************************************************************)
\* AddBonuses with stats[k] = v for the sum
AddBonusesOverwriting(stats, bonuses) ==
  [k \in DOMAIN stats \cup DOMAIN bonuses |->
     IF k \in DOMAIN bonuses THEN bonuses[k] ELSE stats[k]]

\* for (const [k, v] of Object.entries(bonuses)) stats[k] = (stats[k] || 0) + v
AddBonuses(stats, bonuses) ==
  [k \in DOMAIN stats \cup DOMAIN bonuses |->
     IF k \in DOMAIN bonuses THEN StatOr0(stats, k) + bonuses[k] ELSE stats[k]]

\* if (it && it.statBonuses) ...
ApplyItem(stats, found) ==
  IF found.found THEN AddBonuses(stats, found.item.statBonuses) ELSE stats

RECURSIVE ApplyAccessories(_, _, _)
ApplyAccessories(stats, presets, ids) ==
  IF ids = <<>>
    THEN stats
    ELSE ApplyAccessories(ApplyItem(stats, findById(Cat(presets, "accessories"), Head(ids))),
                          presets, Tail(ids))

\* the three composite metrics, assigned after the bonuses
Composite(stats, attire, mask) ==
  LET s1 == Put(stats, "showmanship", StatOr0(stats, "charisma") * 2 + StatOr0(stats, "technique"))
      s2 == Put(s1, "finishPower",
                StatOr0(s1, "strength") * 2 + (IF attire.found THEN attire.item.damage ELSE 0))
  IN  Put(s2, "resilience",
          StatOr0(s2, "stamina") * 2 + (IF mask.found THEN mask.item.armor ELSE 0)
            + StatOr0(s2, "vitality"))

\* deriveStats for a selection whose archetype resolves (the handlers call it
\* only after validateSelection returned no error)
deriveStats(presets, selection) ==
  LET archetype == findById(Cat(presets, "archetypes"), Field(selection, "archetypeId"))
      attire == findById(Cat(presets, "attire"), Field(selection, "attireId"))
      mask == findById(Cat(presets, "masks"), Field(selection, "maskId"))
      acc == Field(selection, "accessoryIds")
      height == findById(Cat(presets, "heights"), Field(selection, "heightId"))
      bodyType == findById(Cat(presets, "bodyTypes"), Field(selection, "bodyTypeId"))
      s0 == archetype.item.baseStats
      s1 == ApplyItem(s0, attire)
      s2 == ApplyItem(s1, mask)
      s3 == ApplyAccessories(s2, presets, IF Truthy(acc) THEN acc.a ELSE <<>>)
      s4 == ApplyItem(s3, height)
      s5 == ApplyItem(s4, bodyType)
  IN  Composite(s5, attire, mask)

\* presets with the baseStats of the archetype the selection names replaced
WithBaseStats(presets, selection, stats) ==
  LET list == Cat(presets, "archetypes")
      i == FindIndexById(list, Field(selection, "archetypeId"))
  IN  IF i = 0
        THEN presets
        ELSE Put(presets, "archetypes", [list EXCEPT ![i] = [@ EXCEPT !.baseStats = stats]])

\* deriveCall with `const stats = archetype.baseStats` for line 133: the
\* writes to stats are writes to the catalog item
deriveCallAliasing(presets, selection) ==
  LET stats == deriveStats(presets, selection)
  IN  [stats |-> stats, presets |-> WithBaseStats(presets, selection, stats),
       selection |-> selection]

\* a call of deriveStats with what it leaves in its two arguments: stats is
\* a fresh object (Object.assign({}, ...), line 133) and the accessory list a
\* fresh array (map, line 128), so no write reaches presets or selection
deriveCall(presets, selection) ==
  [stats |-> deriveStats(presets, selection), presets |-> presets, selection |-> selection]

(***************************************************************************)
(* Bounds of the model                                                    *)
(***************************************************************************)
\* requests per run (each slot carries one request)
MaxReq == 2

\* the clock read by nowISO() runs over 0..MaxClock
MaxClock == 1

\* longest accessoryIds array and number of bad ids tried by the validator runs
MaxAcc == 2

Req == 1..MaxReq

(***************************************************************************)
(* The catalog documents the runs draw presets.json from                  *)
(***************************************************************************)
Archetypes ==
  <<Item(S("luchador"), Stat1("strength", 5), NoStats, 0, 0),
    Item(S("giant"), [k \in {"strength", "stamina"} |-> IF k = "strength" THEN 7 ELSE 3],
         NoStats, 0, 0)>>

Attire ==
  <<Item(S("cape"), NoStats, Stat1("strength", 2), 3, 0),
    Item(S("trunks"), NoStats, Stat1("charisma", 1), 0, 0)>>

Masks == <<Item(S("m1"), NoStats, Stat1("stamina", 1), 0, 2)>>

Accessories ==
  <<Item(S("belt"), NoStats, Stat1("charisma", 2), 0, 0),
    Item(S("pads"), NoStats, [k \in {"stamina", "vitality"} |-> 1], 0, 0)>>

\* a numeric id, as in legacy data
Heights == <<Item(N(1), NoStats, Stat1("technique", 1), 0, 0)>>

BodyTypes == <<Plain(S("b1"))>>

SkinColors == <<Plain(S("tan"))>>

\* the six categories every variant requires
CoreCatalog ==
  [k \in {"archetypes", "attire", "masks", "accessories", "heights", "bodyTypes"} |->
     CASE k = "archetypes" -> Archetypes
       [] k = "attire" -> Attire
       [] k = "masks" -> Masks
       [] k = "accessories" -> Accessories
       [] k = "heights" -> Heights
       [] OTHER -> BodyTypes]

FullCatalog == Put(CoreCatalog, "skinColors", SkinColors)

\* skinColors defined but empty
NoSkinCatalog == Put(CoreCatalog, "skinColors", <<>>)

\* a key of obj removed
Without(obj, k) == [x \in DOMAIN obj \ {k} |-> obj[x]]

\* the archetypes stored under the legacy key "classes"
LegacyCatalog == Put(Without(FullCatalog, "archetypes"), "classes", Archetypes)

\* the legacy key again, in a document without skinColors
LegacyCoreCatalog == Without(LegacyCatalog, "skinColors")

\* a document with no masks under any name
NoMasksCatalog == Without(FullCatalog, "masks")

(***************************************************************************)
(* The characters document and the file that holds it                     *)
(***************************************************************************)
\* { characters: [...] }
Collection(chars) == [t |-> "obj", has |-> TRUE, chars |-> chars]

\* {} : an object without the characters key
BareObject == [t |-> "obj", has |-> FALSE, chars |-> <<>>]

\* [] : a JSON array
BareArray == [t |-> "arr", has |-> FALSE, chars |-> <<>>]

\* null (any falsy JSON value)
JsonNull == [t |-> "null", has |-> FALSE, chars |-> <<>>]

\* a truthy JSON primitive such as 5
JsonNumber == [t |-> "num", has |-> FALSE, chars |-> <<>>]

\* data.characters || []
CharsOf(doc) == IF doc.has THEN doc.chars ELSE <<>>

\* a measure of the length of JSON.stringify(doc)
Weight(doc) == IF doc.has THEN 2 + Len(doc.chars) ELSE 1

\* the state of characters.json: n measures the bytes in the file
FileMissing == [st |-> "missing", doc |-> JsonNull, n |-> 0]

FileText(doc) == [st |-> "json", doc |-> doc, n |-> Weight(doc)]

\* text JSON.parse rejects: the empty file (n = 0) or a torn one
FileBroken(n) == [st |-> "partial", doc |-> JsonNull, n |-> n]

\* readJSON(CHARACTERS_FILE, null): the value, null for ENOENT, or a throw
readJSON(file) ==
  CASE file.st = "missing" -> [throws |-> FALSE, doc |-> JsonNull]
    [] file.st = "partial" -> [throws |-> TRUE, doc |-> JsonNull]
    [] OTHER -> [throws |-> FALSE, doc |-> file.doc]

\* fs.writeFile opens the file with O_TRUNC ...
Truncated(file) == FileBroken(0)

\* ... and then writes the text at offset 0.  Over a longer text that another
\* writer completed in between, the tail of that text stays behind the new one.
\* (A collection of more characters is the longer text; among collections of
\* as many characters the new text is taken to cover the old one.)
Written(file, doc) ==
  IF file.n > Weight(doc) THEN FileBroken(file.n) ELSE FileText(doc)

(***************************************************************************)
(* Characters                                                             *)
(***************************************************************************)
Character(id, name, selection, derivedStats, createdAt, updatedAt, notes) ==
  [id |-> id, name |-> name, selection |-> selection, derivedStats |-> derivedStats,
   createdAt |-> createdAt, updatedAt |-> updatedAt, notes |-> notes]

NoChar == Character(0, "", SelUndef, NoStats, 0, 0, Undef)

\* FindIndex with an assignment for the comparison, (c) => c.id = id: the
\* first character matches
FindIndexAssigning(chars, id) == IF chars # <<>> THEN 1 ELSE 0

\* chars.findIndex((c) => c.id === id), 0 for -1
FindIndex(chars, id) ==
  IF \E i \in 1..Len(chars) : chars[i].id = id
    THEN CHOOSE i \in 1..Len(chars) :
           chars[i].id = id /\ \A j \in 1..(i - 1) : chars[j].id # id
    ELSE 0

\* chars.splice(idx, 1)
Splice(chars, idx) == SubSeq(chars, 1, idx - 1) \o SubSeq(chars, idx + 1, Len(chars))

\* payload.notes || ''
NotesOrEmpty(notes) == IF Truthy(notes) THEN notes ELSE S("")

Payload(name, selection, notes) == [name |-> name, selection |-> selection, notes |-> notes]

NoPayload == Payload(Undef, SelUndef, Undef)

\* Updated with the notes replaced as POST builds them (payload.notes || '')
UpdatedReplacingNotes(c, payload, presets, now) ==
  [c EXCEPT
     !.name = IF Truthy(payload.name) THEN String(payload.name) ELSE @,
     !.selection = IF SelTruthy(payload.selection) THEN payload.selection ELSE @,
     !.derivedStats = IF SelTruthy(payload.selection)
                        THEN deriveStats(presets, payload.selection) ELSE @,
     !.notes = NotesOrEmpty(payload.notes),
     !.updatedAt = now]

\* Updated without line 291: the stats of the old selection are kept
UpdatedKeepingStats(c, payload, presets, now) ==
  [c EXCEPT
     !.name = IF Truthy(payload.name) THEN String(payload.name) ELSE @,
     !.selection = IF SelTruthy(payload.selection) THEN payload.selection ELSE @,
     !.notes = IF payload.notes # Undef THEN payload.notes ELSE @,
     !.updatedAt = now]

\* lines 288-294 of the PUT handler on chars[idx]
Updated(c, payload, presets, now) ==
  [c EXCEPT
     !.name = IF Truthy(payload.name) THEN String(payload.name) ELSE @,
     !.selection = IF SelTruthy(payload.selection) THEN payload.selection ELSE @,
     !.derivedStats = IF SelTruthy(payload.selection)
                        THEN deriveStats(presets, payload.selection) ELSE @,
     !.notes = IF payload.notes # Undef THEN payload.notes ELSE @,
     !.updatedAt = now]

(***************************************************************************)
(* Requests                                                               *)
(***************************************************************************)
GoodSel ==
  SelObj([k \in SelFields |->
     CASE k = "archetypeId" -> S("luchador")
       [] k = "attireId" -> S("cape")
       [] k = "maskId" -> S("m1")
       [] k = "accessoryIds" -> Arr(<<S("belt")>>)
       [] k = "heightId" -> S("1")
       [] k = "bodyTypeId" -> S("b1")
       [] OTHER -> S("tan")])

OtherSel ==
  SelObj([k \in SelFields \ {"accessoryIds"} |->
     CASE k = "archetypeId" -> S("giant")
       [] k = "attireId" -> S("trunks")
       [] k = "maskId" -> S("m1")
       [] k = "heightId" -> N(1)
       [] k = "bodyTypeId" -> S("b1")
       [] OTHER -> S("tan")])

\* attireId omitted and an accessory that does not exist
BadSel == SelObj(Put(Without(GoodSel.o, "attireId"), "accessoryIds", Arr(<<S("zzz")>>)))

\* a character stored by an earlier run of the server
Rey == Character(1, "Rey", GoodSel, deriveStats(FullCatalog, GoodSel), 0, 0, S(""))

\* the first id generateId() hands out in a run: one no stored character has
FirstId == Rey.id + 1

NoPresets == [k \in {} |-> <<>>]

Response(status, chars, details) == [status |-> status, chars |-> chars, details |-> details]

NoResponse == Response(0, <<>>, <<>>)

IdleReq ==
  [kind |-> "none", pc |-> "idle", id |-> 0, payload |-> NoPayload, presets |-> NoPresets,
   newChar |-> NoChar, out |-> JsonNull, res |-> NoResponse, pre |-> FileMissing]

VARIABLES
  presetsFile,  \* presets.json
  charsFile,    \* characters.json
  req,          \* the requests: handler position, locals and response
  clock,        \* the time nowISO() last returned
  nextId,       \* the next value of generateId()
  fn,           \* the inputs and results of the validator / deriver runs
  PRESETS,      \* the module-level catalog cache of the synchronous variant
  sync          \* the synchronous variant: started or not, its last answer

vars == <<presetsFile, charsFile, req, clock, nextId, fn, PRESETS, sync>>

\* the request r has answered with this response; its locals are dropped
Respond(r, res) ==
  req' = [req EXCEPT ![r] = [@ EXCEPT !.pc = "done", !.res = res, !.presets = NoPresets,
                                      !.out = JsonNull]]

Goto(r, pc) == req' = [req EXCEPT ![r].pc = pc]

(***************************************************************************)
(* A request arrives: the handler runs up to its first await.             *)
(***************************************************************************)
\* GET /api/characters, GET and DELETE /api/characters/:id, the listen callback
StartPlain(r, kind, id) ==
  /\ req[r].pc = "idle"
  /\ req' = [req EXCEPT ![r] = [@ EXCEPT !.kind = kind, !.id = id, !.pc = "ensure",
                                        !.pre = charsFile]]
  /\ UNCHANGED <<presetsFile, charsFile, clock, nextId, fn, PRESETS, sync>>

\* POST /api/characters, lines 230-235
StartCreate(r, payload) ==
  /\ req[r].pc = "idle"
  /\ LET q == [req[r] EXCEPT !.kind = "create", !.payload = payload, !.pre = charsFile]
     IN  IF ~Truthy(payload.name) \/ ~SelTruthy(payload.selection)
           THEN req' = [req EXCEPT ![r] = [q EXCEPT !.pc = "done",
                                                    !.res = Response(400, <<>>, <<>>)]]
           ELSE req' = [req EXCEPT ![r] = [q EXCEPT !.pc = "presets"]]
  /\ UNCHANGED <<presetsFile, charsFile, clock, nextId, fn, PRESETS, sync>>

\* PUT /api/characters/:id, lines 269-274
StartUpdate(r, id, payload) ==
  /\ req[r].pc = "idle"
  /\ LET q == [req[r] EXCEPT !.kind = "update", !.id = id, !.payload = payload,
                             !.pre = charsFile]
     IN  IF ~Truthy(payload.name) /\ ~SelTruthy(payload.selection) /\ payload.notes = Undef
           THEN req' = [req EXCEPT ![r] = [q EXCEPT !.pc = "done",
                                                    !.res = Response(400, <<>>, <<>>)]]
           ELSE req' = [req EXCEPT ![r] = [q EXCEPT !.pc = "presets"]]
  /\ UNCHANGED <<presetsFile, charsFile, clock, nextId, fn, PRESETS, sync>>

(***************************************************************************)
(* await loadPresets() returns: validation, derivation, the new record.   *)
(***************************************************************************)
\* CreatePresets without the check of the validation result (lines 237-239)
CreatePresetsUnchecked(r) ==
  /\ req[r].pc = "presets" /\ req[r].kind = "create"
  /\ LET lp == loadPresets(presetsFile)
         sel == req[r].payload.selection
     IN  IF ~lp.ok
           THEN Respond(r, Response(500, <<>>, <<>>)) /\ UNCHANGED <<clock, nextId>>
           ELSE \E t1 \in clock..MaxClock : \E t2 \in t1..MaxClock :
                  /\ req' = [req EXCEPT ![r] = [@ EXCEPT
                               !.pc = "ensure",
                               !.newChar = Character(nextId, String(req[r].payload.name), sel,
                                                     deriveStats(lp.presets, sel), t1, t2,
                                                     NotesOrEmpty(req[r].payload.notes))]]
                  /\ clock' = t2
                  /\ nextId' = nextId + 1
  /\ UNCHANGED <<presetsFile, charsFile, fn, PRESETS, sync>>

\* lines 235-253
CreatePresets(r) ==
  /\ req[r].pc = "presets" /\ req[r].kind = "create"
  /\ LET lp == loadPresets(presetsFile)
         sel == req[r].payload.selection
         validation == validateSelection(lp.presets, sel)
     IN  IF ~lp.ok
           THEN Respond(r, Response(500, <<>>, <<>>)) /\ UNCHANGED <<clock, nextId>>
           ELSE IF validation # <<>>
             THEN Respond(r, Response(400, <<>>, validation)) /\ UNCHANGED <<clock, nextId>>
             ELSE \E t1 \in clock..MaxClock : \E t2 \in t1..MaxClock :
                    /\ req' = [req EXCEPT ![r] = [@ EXCEPT
                                 !.pc = "ensure",
                                 !.newChar = Character(nextId, String(req[r].payload.name), sel,
                                                       deriveStats(lp.presets, sel), t1, t2,
                                                       NotesOrEmpty(req[r].payload.notes))]]
                    /\ clock' = t2
                    /\ nextId' = nextId + 1
  /\ UNCHANGED <<presetsFile, charsFile, fn, PRESETS, sync>>

\* lines 274-282
UpdatePresets(r) ==
  /\ req[r].pc = "presets" /\ req[r].kind = "update"
  /\ LET lp == loadPresets(presetsFile)
         sel == req[r].payload.selection
         validation == IF SelTruthy(sel) THEN validateSelection(lp.presets, sel) ELSE <<>>
     IN  IF ~lp.ok
           THEN Respond(r, Response(500, <<>>, <<>>))
           ELSE IF validation # <<>>
             THEN Respond(r, Response(400, <<>>, validation))
             ELSE req' = [req EXCEPT ![r] = [@ EXCEPT !.pc = "ensure", !.presets = lp.presets]]
  /\ UNCHANGED <<presetsFile, charsFile, clock, nextId, fn, PRESETS, sync>>

(***************************************************************************)
(* ensureCharactersFile                                                   *)
(***************************************************************************)
\* where a handler continues after ensureCharactersFile()
AfterEnsure(r) == IF req[r].kind = "init" THEN "done" ELSE "read"

\* line 182: the read returns; a throw ends the handler in its catch
EnsureRead(r) ==
  /\ req[r].pc = "ensure"
  /\ LET existing == readJSON(charsFile)
     IN  IF existing.throws
           THEN Respond(r, Response(500, <<>>, <<>>))
           ELSE IF existing.doc.t = "null"
             THEN Goto(r, "eopen")
             ELSE Goto(r, AfterEnsure(r))
  /\ UNCHANGED <<presetsFile, charsFile, clock, nextId, fn, PRESETS, sync>>

\* line 184: writeFile opens characters.json, truncating it
EnsureOpen(r) ==
  /\ req[r].pc = "eopen"
  /\ charsFile' = Truncated(charsFile)
  /\ Goto(r, "ewrite")
  /\ UNCHANGED <<presetsFile, clock, nextId, fn, PRESETS, sync>>

\* line 184: writeFile writes { characters: [] }
EnsureWrite(r) ==
  /\ req[r].pc = "ewrite"
  /\ charsFile' = Written(charsFile, Collection(<<>>))
  /\ Goto(r, AfterEnsure(r))
  /\ UNCHANGED <<presetsFile, clock, nextId, fn, PRESETS, sync>>

(***************************************************************************)
(* await readJSON(CHARACTERS_FILE) returns in a handler.  A throw (text   *)
(* JSON.parse rejects, or data === null) ends the handler with 500.       *)
(***************************************************************************)
ReadFails(data) == data.throws \/ data.doc.t = "null"

\* GET /api/characters, lines 205-206
ListRead(r) ==
  /\ req[r].pc = "read" /\ req[r].kind = "list"
  /\ LET data == readJSON(charsFile)
     IN  IF ReadFails(data)
           THEN Respond(r, Response(500, <<>>, <<>>))
           ELSE Respond(r, Response(200, CharsOf(data.doc), <<>>))
  /\ UNCHANGED <<presetsFile, charsFile, clock, nextId, fn, PRESETS, sync>>

\* GET /api/characters/:id, lines 217-220
GetRead(r) ==
  /\ req[r].pc = "read" /\ req[r].kind = "get"
  /\ LET data == readJSON(charsFile)
         chars == CharsOf(data.doc)
         idx == FindIndex(chars, req[r].id)
     IN  IF ReadFails(data)
           THEN Respond(r, Response(500, <<>>, <<>>))
           ELSE IF idx = 0
             THEN Respond(r, Response(404, <<>>, <<>>))
             ELSE Respond(r, Response(200, <<chars[idx]>>, <<>>))
  /\ UNCHANGED <<presetsFile, charsFile, clock, nextId, fn, PRESETS, sync>>

\* POST, lines 254-257: on a JSON array the characters property is not
\* serialised; on a primitive data.characters stays undefined and push throws
CreateRead(r) ==
  /\ req[r].pc = "read" /\ req[r].kind = "create"
  /\ LET data == readJSON(charsFile)
     IN  IF ReadFails(data) \/ data.doc.t = "num"
           THEN Respond(r, Response(500, <<>>, <<>>))
           ELSE req' = [req EXCEPT ![r] = [@ EXCEPT
                          !.pc = "wopen",
                          !.out = IF data.doc.t = "arr"
                                    THEN BareArray
                                    ELSE Collection(Append(CharsOf(data.doc), req[r].newChar))]]
  /\ UNCHANGED <<presetsFile, charsFile, clock, nextId, fn, PRESETS, sync>>

\* PUT, lines 283-296
UpdateRead(r) ==
  /\ req[r].pc = "read" /\ req[r].kind = "update"
  /\ LET data == readJSON(charsFile)
         chars == CharsOf(data.doc)
         idx == FindIndex(chars, req[r].id)
     IN  IF ReadFails(data)
           THEN Respond(r, Response(500, <<>>, <<>>)) /\ UNCHANGED clock
           ELSE IF idx = 0
             THEN Respond(r, Response(404, <<>>, <<>>)) /\ UNCHANGED clock
             ELSE \E now \in clock..MaxClock :
                    LET c == Updated(chars[idx], req[r].payload, req[r].presets, now)
                    IN  /\ req' = [req EXCEPT ![r] = [@ EXCEPT
                                     !.pc = "wopen",
                                     !.newChar = c,
                                     !.out = Collection([chars EXCEPT ![idx] = c])]]
                        /\ clock' = now
  /\ UNCHANGED <<presetsFile, charsFile, nextId, fn, PRESETS, sync>>

\* DeleteRead without the idx === -1 return (line 311): splice(-1, 1) removes
\* the last character
DeleteReadUnchecked(r) ==
  /\ req[r].pc = "read" /\ req[r].kind = "delete"
  /\ LET data == readJSON(charsFile)
         chars == CharsOf(data.doc)
         idx == FindIndex(chars, req[r].id)
         at == IF idx = 0 THEN Len(chars) ELSE idx
     IN  IF ReadFails(data)
           THEN Respond(r, Response(500, <<>>, <<>>))
           ELSE req' = [req EXCEPT ![r] = [@ EXCEPT
                          !.pc = "wopen",
                          !.newChar = IF at = 0 THEN NoChar ELSE chars[at],
                          !.out = IF at = 0 THEN data.doc ELSE Collection(Splice(chars, at))]]
  /\ UNCHANGED <<presetsFile, charsFile, clock, nextId, fn, PRESETS, sync>>

\* DELETE, lines 308-313
DeleteRead(r) ==
  /\ req[r].pc = "read" /\ req[r].kind = "delete"
  /\ LET data == readJSON(charsFile)
         chars == CharsOf(data.doc)
         idx == FindIndex(chars, req[r].id)
     IN  IF ReadFails(data)
           THEN Respond(r, Response(500, <<>>, <<>>))
           ELSE IF idx = 0
             THEN Respond(r, Response(404, <<>>, <<>>))
             ELSE req' = [req EXCEPT ![r] = [@ EXCEPT
                            !.pc = "wopen",
                            !.newChar = chars[idx],
                            !.out = Collection(Splice(chars, idx))]]
  /\ UNCHANGED <<presetsFile, charsFile, clock, nextId, fn, PRESETS, sync>>

(***************************************************************************)
(* await writeJSON(CHARACTERS_FILE, data) in a mutating handler           *)
(***************************************************************************)
\* writeFile opens characters.json, truncating it
WriteOpen(r) ==
  /\ req[r].pc = "wopen"
  /\ charsFile' = Truncated(charsFile)
  /\ Goto(r, "wwrite")
  /\ UNCHANGED <<presetsFile, clock, nextId, fn, PRESETS, sync>>

\* writeFile writes the text; the handler answers 201 (POST) or 200
WriteDone(r) ==
  /\ req[r].pc = "wwrite"
  /\ charsFile' = Written(charsFile, req[r].out)
  /\ Respond(r, Response(IF req[r].kind = "create" THEN 201 ELSE 200, <<req[r].newChar>>, <<>>))
  /\ UNCHANGED <<presetsFile, clock, nextId, fn, PRESETS, sync>>

\* the steps of a request that is in flight
Step(r) ==
  \/ CreatePresets(r)
  \/ UpdatePresets(r)
  \/ EnsureRead(r)
  \/ EnsureOpen(r)
  \/ EnsureWrite(r)
  \/ ListRead(r)
  \/ GetRead(r)
  \/ CreateRead(r)
  \/ UpdateRead(r)
  \/ DeleteRead(r)
  \/ WriteOpen(r)
  \/ WriteDone(r)

(***************************************************************************)
(* The requests a run may issue                                           *)
(***************************************************************************)
\* ids a client may ask for: 0 is never generated
TargetIds == 0..(nextId - 1)

\* slots are taken in order
NextSlot(r) == req[r].pc = "idle" /\ (IF r = 1 THEN TRUE ELSE req[r - 1].pc # "idle")

\* the listen callback runs first when it runs in this run
Arrive(r, creates, updates) ==
  /\ NextSlot(r)
  /\ \/ StartPlain(r, "list", 0)
     \/ \E id \in TargetIds : StartPlain(r, "get", id)
     \/ \E id \in TargetIds : StartPlain(r, "delete", id)
     \/ r = 1 /\ StartPlain(r, "init", 0)
     \/ \E p \in creates : StartCreate(r, p)
     \/ \E id \in TargetIds : \E p \in updates : StartUpdate(r, id, p)

ConcCreates == {Payload(S("Kane"), GoodSel, Undef), Payload(S("Kane"), BadSel, Undef)}

ConcUpdates ==
  {Payload(Undef, OtherSel, Undef), Payload(S("Kane"), SelUndef, S("face")),
   Payload(Undef, BadSel, Undef)}

\* what a client sends one request at a time: each field supplied or not, a
\* numeric name, empty notes, an invalid and a non-object selection
SeqPayloads ==
  {Payload(S("Kane"), OtherSel, Undef), Payload(N(7), GoodSel, S("face")),
   Payload(Undef, OtherSel, S("face")), Payload(S("Kane"), SelUndef, Undef),
   Payload(Undef, SelUndef, S("face")), Payload(Undef, SelUndef, S("")),
   Payload(S(""), SelUndef, Undef), Payload(S("Kane"), BadSel, S("face")),
   Payload(S("Kane"), SelStr("mask"), Undef)}

\* nothing is in flight
Quiet == \A q \in Req : req[q].pc \in {"idle", "done"}

IdleFn == [pc |-> "off"]

\* let PRESETS = null
NullPresets == [loaded |-> FALSE, presets |-> NoPresets]

\* an answer of the synchronous variant, with the line its startup logged
SyncState(up, log, kind, status, body, chars) ==
  [up |-> up, log |-> log, kind |-> kind, status |-> status, body |-> body, chars |-> chars]

\* the synchronous variant before `node server.js`
SyncDown == SyncState(FALSE, "", "none", 0, NoPresets, <<>>)

InitServer ==
  /\ presetsFile \in {Json(FullCatalog), Missing}
  /\ charsFile \in {FileMissing, FileText(Collection(<<>>)), FileText(Collection(<<Rey>>))}
  /\ req = [r \in Req |-> IdleReq]
  /\ clock = 0
  /\ nextId = FirstId
  /\ fn = IdleFn
  /\ PRESETS = NullPresets
  /\ sync = SyncDown

(***************************************************************************)
(* Spec: requests in flight concurrently, interleaved at every await      *)
(***************************************************************************)
Init == InitServer

Next == \E r \in Req : Arrive(r, ConcCreates, ConcUpdates) \/ Step(r)

Spec == Init /\ [][Next]_vars

(***************************************************************************)
(* SpecSeq: a client that waits for each answer before the next request   *)
(***************************************************************************)
NextSeq == \E r \in Req : (Quiet /\ Arrive(r, SeqPayloads, SeqPayloads)) \/ Step(r)

SpecSeq == Init /\ [][NextSeq]_vars

(***************************************************************************)
(* Properties of the store under concurrent requests                      *)
(***************************************************************************)
\* what GET /api/characters answers when it runs with nothing else in flight
listAlone(file) ==
  LET existing == readJSON(file)
  IN  IF existing.throws
        THEN Response(500, <<>>, <<>>)
        ELSE IF existing.doc.t = "null"
          THEN Response(200, <<>>, <<>>)
          ELSE Response(200, CharsOf(existing.doc), <<>>)

\* the file the run started from (the first request saw it on arrival)
InitialFile == req[1].pre

Mutating == {"create", "update", "delete"}

\* a create request whose name and selection are valid for the catalog on disk
ValidCreate(q) ==
  /\ q.kind = "create"
  /\ Truthy(q.payload.name)
  /\ SelTruthy(q.payload.selection)
  /\ loadPresets(presetsFile).ok
  /\ validateSelection(loadPresets(presetsFile).presets, q.payload.selection) = <<>>

\* every request of the run was a valid create and all have been answered
AllCreatesDone == \A r \in Req : req[r].pc = "done" /\ ValidCreate(req[r])

\* number of positions of chars that hold c
Occurrences(chars, c) == Cardinality({i \in 1..Len(chars) : chars[i] = c})

\* C1: N concurrent valid creates on an empty store leave no lost update: when
\* all of them have succeeded, a list() issued after them returns exactly N
\* characters, each created one once
C1_NoLostUpdates ==
  (/\ AllCreatesDone
   /\ listAlone(InitialFile) = Response(200, <<>>, <<>>)
   /\ \A r \in Req : req[r].res.status = 201)
    => /\ listAlone(charsFile).status = 200
       /\ Len(listAlone(charsFile).chars) = MaxReq
       /\ \A r \in Req : Occurrences(listAlone(charsFile).chars, req[r].res.chars[1]) = 1

\* the request r takes a step that reads characters.json
ReadsFile(r) == req[r].pc \in {"ensure", "read"} /\ req'[r] # req[r]

\* a mutating request is between the open and the end of its writeFile
Writing(w) == req[w].kind \in Mutating /\ req[w].pc = "wwrite"

\* C2: while a mutating request writes the collection, a list() or get(id)
\* never reads a partially written file
C2_NoPartialRead ==
  [][\A r \in Req :
       (req[r].kind \in {"list", "get"} /\ ReadsFile(r) /\ \E w \in Req : Writing(w))
         => charsFile.st # "partial"]_vars

\* the request sends a selection that the catalog on disk rejects
InvalidSelection(q) ==
  /\ q.kind \in {"create", "update"}
  /\ SelTruthy(q.payload.selection)
  /\ loadPresets(presetsFile).ok
  /\ validateSelection(loadPresets(presetsFile).presets, q.payload.selection) # <<>>

\* the request is well formed apart from its selection
WellFormed(q) == q.kind = "update" \/ Truthy(q.payload.name)

\* C3: a create or update whose selection has violations answers 400 with
\* the whole violation list, and no step of it changes characters.json
C3_InvalidNotPersisted ==
  [][\A r \in Req :
       InvalidSelection(req'[r])
         => /\ req'[r] # req[r] => charsFile' = charsFile
            /\ (req'[r].pc = "done" /\ WellFormed(req'[r]))
                 => /\ req'[r].res.status = 400
                    /\ req'[r].res.details =
                         <<Err("Invalid attireId", ""), Err("Invalid accessoryId: ", "zzz")>>]_vars

\* an invalid create and an invalid update have both been rejected while the
\* file holds a character
C3_Witness ==
  /\ \E r \in Req : req[r].kind = "create" /\ InvalidSelection(req[r]) /\ req[r].res.status = 400
  /\ \E r \in Req : req[r].kind = "update" /\ InvalidSelection(req[r]) /\ req[r].res.status = 400
  /\ charsFile = FileText(Collection(<<Rey>>))

(***************************************************************************)
(* SpecFn: the validator and the deriver applied to drawn inputs          *)
(***************************************************************************)
\* the selections drawn: per field, ids that resolve in the catalogs above, an
\* id that does not, a missing field, string and number forms of one id
AccessoryArrays ==
  UNION {[1..n -> {S("belt"), S("zzz")}] : n \in 0..MaxAcc}

FnSelections ==
  {SelObj([k \in SelFields |->
      CASE k = "archetypeId" -> a
        [] k = "attireId" -> at
        [] k = "maskId" -> m
        [] k = "accessoryIds" -> acc
        [] k = "heightId" -> h
        [] k = "bodyTypeId" -> b
        [] OTHER -> sk]) :
     a \in {S("luchador"), S("nope")},
     at \in {S("cape"), Undef},
     m \in {S("m1"), S("nope")},
     acc \in {Undef, S("belt")} \cup {Arr(x) : x \in AccessoryArrays},
     h \in {S("1"), N(1), N(2)},
     b \in {S("b1"), S("nope")},
     sk \in {S("tan"), Undef, S("nope")}}

\* the selections whose ids all resolve: every archetype and attire, every
\* accessory list up to MaxAcc (an accessory twice included), both forms of
\* the height id
DeriveSelections ==
  {SelObj([k \in SelFields |->
      CASE k = "archetypeId" -> a
        [] k = "attireId" -> at
        [] k = "maskId" -> S("m1")
        [] k = "accessoryIds" -> Arr(acc)
        [] k = "heightId" -> h
        [] k = "bodyTypeId" -> S("b1")
        [] OTHER -> S("tan")]) :
     a \in {S("luchador"), S("giant")},
     at \in {S("cape"), S("trunks")},
     acc \in UNION {[1..n -> {S("belt"), S("pads")}] : n \in 0..MaxAcc},
     h \in {S("1"), N(1)}}

FnFiles ==
  {Json(FullCatalog), Json(NoSkinCatalog), Json(LegacyCatalog), Json(CoreCatalog),
   Json(LegacyCoreCatalog), Json(NoMasksCatalog), Missing, Unparsable, JsonFalsy}

\* values no category of the catalogs above holds
BadValues == {S("nope"), N(9)}

SingleFields ==
  {"archetypeId", "attireId", "maskId", "heightId", "bodyTypeId", "skinColorId"}

\* again holds the result of a second call of deriveStats
FnState(pc, base, sel, field, presets, errors, stats) ==
  [pc |-> pc, base |-> base, sel |-> sel, field |-> field, presets |-> presets,
   errors |-> errors, stats |-> stats, again |-> NoStats]

InitFn ==
  /\ presetsFile \in FnFiles
  /\ \E sel \in FnSelections \cup DeriveSelections :
       fn = FnState("input", sel, sel, "none", NoPresets, <<>>, NoStats)
  /\ charsFile = FileMissing
  /\ req = [r \in Req |-> IdleReq]
  /\ clock = 0
  /\ nextId = FirstId
  /\ PRESETS = NullPresets
  /\ sync = SyncDown

\* const presets = await loadPresets()
FnLoad ==
  /\ fn.pc = "input"
  /\ LET lp == loadPresets(presetsFile)
     IN  fn' = [fn EXCEPT !.pc = IF lp.ok THEN "loaded" ELSE "unavailable",
                          !.presets = lp.presets]
  /\ UNCHANGED <<presetsFile, charsFile, req, clock, nextId, PRESETS, sync>>

\* the caller replaces one id of the selection by a value no category holds
FnCorrupt ==
  /\ fn.pc = "loaded" /\ fn.field = "none"
  /\ \E bad \in BadValues :
       \/ \E f \in SingleFields :
            fn' = [fn EXCEPT !.field = f, !.sel = SelObj(Put(fn.sel.o, f, bad))]
       \/ /\ IsArray(Field(fn.sel, "accessoryIds"))
          /\ \E i \in 1..Len(Field(fn.sel, "accessoryIds").a) :
               fn' = [fn EXCEPT
                        !.field = "accessoryIds",
                        !.sel = SelObj(Put(fn.sel.o, "accessoryIds",
                                  Arr([Field(fn.sel, "accessoryIds").a EXCEPT ![i] = bad])))]
  /\ UNCHANGED <<presetsFile, charsFile, req, clock, nextId, PRESETS, sync>>

\* const validation = validateSelection(presets, payload.selection)
FnValidate ==
  /\ fn.pc = "loaded"
  /\ fn' = [fn EXCEPT !.pc = "validated", !.errors = validateSelection(fn.presets, fn.sel)]
  /\ UNCHANGED <<presetsFile, charsFile, req, clock, nextId, PRESETS, sync>>

\* const derivedStats = deriveStats(presets, payload.selection): the arguments
\* are objects of the caller, which sees what the call did to them
FnDerive ==
  /\ fn.pc = "validated" /\ fn.errors = <<>>
  /\ LET call == deriveCall(fn.presets, fn.sel)
     IN  fn' = [fn EXCEPT !.pc = "derived", !.stats = call.stats, !.presets = call.presets,
                          !.sel = call.selection]
  /\ UNCHANGED <<presetsFile, charsFile, req, clock, nextId, PRESETS, sync>>

\* deriveStats is called once more with the same two objects
FnDeriveAgain ==
  /\ fn.pc = "derived"
  /\ LET call == deriveCall(fn.presets, fn.sel)
     IN  fn' = [fn EXCEPT !.pc = "again", !.again = call.stats, !.presets = call.presets,
                          !.sel = call.selection]
  /\ UNCHANGED <<presetsFile, charsFile, req, clock, nextId, PRESETS, sync>>

NextFn == FnLoad \/ FnCorrupt \/ FnValidate \/ FnDerive \/ FnDeriveAgain

SpecFn == InitFn /\ [][NextFn]_vars

(***************************************************************************)
(* Properties of validateSelection                                        *)
(***************************************************************************)
\* the category a selection field refers to
CategoryOf(f) ==
  CASE f = "archetypeId" -> "archetypes"
    [] f = "attireId" -> "attire"
    [] f = "maskId" -> "masks"
    [] f = "accessoryIds" -> "accessories"
    [] f = "heightId" -> "heights"
    [] f = "bodyTypeId" -> "bodyTypes"
    [] OTHER -> "skinColors"

\* the text of the violation that names a field
ErrorText(f) ==
  CASE f = "archetypeId" -> "Invalid archetypeId"
    [] f = "attireId" -> "Invalid attireId"
    [] f = "maskId" -> "Invalid maskId"
    [] f = "accessoryIds" -> "Invalid accessoryId: "
    [] f = "heightId" -> "Invalid heightId"
    [] f = "bodyTypeId" -> "Invalid bodyTypeId"
    [] OTHER -> "Invalid skinColorId"

\* an item of the category has this id, ids compared as strings
Resolves(presets, cat, v) ==
  \E i \in 1..Len(Cat(presets, cat)) : String(Cat(presets, cat)[i].id) = String(v)

\* skinColorId is required only when the catalog has skin colors
RequiredFields(presets) ==
  {"archetypeId", "attireId", "maskId", "heightId", "bodyTypeId"}
    \cup (IF Cat(presets, "skinColors") # <<>> THEN {"skinColorId"} ELSE {})

\* the single-id fields in violation: required or present, and not resolving
Unresolved(presets, sel) ==
  {f \in SingleFields :
     /\ f \in RequiredFields(presets) \/ Field(sel, f) # Undef
     /\ ~Resolves(presets, CategoryOf(f), Field(sel, f))}

\* the positions of accessoryIds that do not resolve
BadAccessories(presets, sel) ==
  {i \in 1..Len(Field(sel, "accessoryIds").a) :
     ~Resolves(presets, "accessories", Field(sel, "accessoryIds").a[i])}

\* every id the selection refers to exists, and no required id is missing
AllIdsExist(presets, sel) ==
  /\ sel.t = "obj"
  /\ Unresolved(presets, sel) = {}
  /\ Field(sel, "accessoryIds") = Undef
       \/ (IsArray(Field(sel, "accessoryIds")) /\ BadAccessories(presets, sel) = {})

Validated == fn.pc \in {"validated", "derived"}

\* C4: a selection whose ids all exist has no violation, and with one id
\* replaced by a nonexistent value it has exactly one, naming that field
C4_ValidateSound ==
  /\ (Validated /\ fn.field = "none" /\ AllIdsExist(fn.presets, fn.sel))
       => fn.errors = <<>>
  /\ (Validated /\ fn.field # "none" /\ AllIdsExist(fn.presets, fn.base))
       => Len(fn.errors) = 1 /\ fn.errors[1].msg = ErrorText(fn.field)

\* C5: with accessoryIds an array, the violations are exactly one per
\* unresolved single-id field plus one per unresolved accessory entry
C5_Exhaustive ==
  (Validated /\ fn.sel.t = "obj" /\ IsArray(Field(fn.sel, "accessoryIds")))
    => /\ Len(fn.errors) =
            Cardinality(Unresolved(fn.presets, fn.sel))
              + Cardinality(BadAccessories(fn.presets, fn.sel))
       /\ \A f \in Unresolved(fn.presets, fn.sel) :
            Occurrences(fn.errors, Err(ErrorText(f), "")) = 1

\* the presets document has no skinColors category
LacksSkinColors(file) == file.st = "json" /\ "skinColors" \notin DOMAIN file.val

\* the presets document has the six required categories and no skinColors
LacksOnlySkinColors(file) ==
  /\ file.st = "json"
  /\ DOMAIN file.val = DOMAIN CoreCatalog

\* C6: with no skin colors in the catalog (the category empty, or absent and
\* defaulted to empty) a selection without skinColorId, otherwise valid, passes
C6_SkinColorOptional ==
  /\ LacksOnlySkinColors(presetsFile) => fn.pc # "unavailable"
  /\ (/\ Validated
      /\ Cat(fn.presets, "skinColors") = <<>>
      /\ Field(fn.sel, "skinColorId") = Undef
      /\ \A f \in SingleFields \ {"skinColorId"} :
           Resolves(fn.presets, CategoryOf(f), Field(fn.sel, f))
      /\ Field(fn.sel, "accessoryIds") = Undef)
       => fn.errors = <<>>

\* the same properties where the catalog has skin colors: the validator meets
\* C4 and C5 whenever skinColorId is a required field
HasSkinColors == Cat(fn.presets, "skinColors") # <<>>

ValidateSoundWithSkinColors == HasSkinColors => C4_ValidateSound

ExhaustiveWithSkinColors == HasSkinColors => C5_Exhaustive

(***************************************************************************)
(* Properties of loadPresets                                              *)
(***************************************************************************)
\* the six categories a catalog must have
SixCategories == {"archetypes", "attire", "masks", "accessories", "heights", "bodyTypes"}

\* the canonical category a legacy key stands for
LegacyKeys == {<<"classes", "archetypes">>, <<"weapons", "attire">>, <<"armors", "masks">>,
               <<"items", "accessories">>}

\* the value of a category after alias resolution (the category is there)
Canonical(doc, k) ==
  IF k \in DOMAIN doc
    THEN doc[k]
    ELSE doc[(CHOOSE a \in LegacyKeys : a[2] = k /\ a[1] \in DOMAIN doc)[1]]

\* the categories a document has, under their own name or a legacy one
CanonicalKeys(doc) == DOMAIN doc \cup {a[2] : a \in {b \in LegacyKeys : b[1] \in DOMAIN doc}}

\* the resource is missing, empty or unparseable, or lacks a required category
CatalogUnavailable(file) ==
  file.st # "json" \/ ~(SixCategories \subseteq CanonicalKeys(file.val))

\* C11: load() fails exactly when the resource is missing, empty or
\* unparseable or a required category is absent after alias resolution;
\* otherwise it returns the six categories, with skinColors empty when the
\* resource has none
C11_LoadContract ==
  fn.pc # "input"
    => /\ fn.pc = "unavailable" <=> CatalogUnavailable(presetsFile)
       /\ fn.pc # "unavailable"
            => /\ \A k \in SixCategories : fn.presets[k] = Canonical(presetsFile.val, k)
               /\ "skinColors" \in DOMAIN fn.presets
               /\ "skinColors" \notin DOMAIN presetsFile.val => fn.presets["skinColors"] = <<>>

\* the same contract for the resources that have a skinColors category
LoadContractWithSkinColors ==
  (presetsFile.st = "json" /\ ~LacksSkinColors(presetsFile)) \/ presetsFile.st # "json"
    => C11_LoadContract

CompositeNames == {"showmanship", "finishPower", "resilience"}

\* the stat names the items of a catalog carry
StatNames(presets) ==
  UNION {UNION {DOMAIN presets[c][i].baseStats \cup DOMAIN presets[c][i].statBonuses :
                  i \in 1..Len(presets[c])} : c \in DOMAIN presets}

\* the bonus an item of a category gives to a stat, 0 when it gives none
BonusOf(presets, cat, id, k) == StatOr0(findById(Cat(presets, cat), id).item.statBonuses, k)

\* the sum of the bonuses of the accessories, one term per occurrence
RECURSIVE AccessorySum(_, _, _)
AccessorySum(presets, ids, k) ==
  IF ids = <<>>
    THEN 0
    ELSE BonusOf(presets, "accessories", Head(ids), k) + AccessorySum(presets, Tail(ids), k)

\* base value plus the bonuses of attire, mask, accessories, height, body type
ExpectedStat(presets, sel, k) ==
  StatOr0(findById(Cat(presets, "archetypes"), Field(sel, "archetypeId")).item.baseStats, k)
    + BonusOf(presets, "attire", Field(sel, "attireId"), k)
    + BonusOf(presets, "masks", Field(sel, "maskId"), k)
    + AccessorySum(presets, IF IsArray(Field(sel, "accessoryIds"))
                              THEN Field(sel, "accessoryIds").a ELSE <<>>, k)
    + BonusOf(presets, "heights", Field(sel, "heightId"), k)
    + BonusOf(presets, "bodyTypes", Field(sel, "bodyTypeId"), k)

\* C17: for a valid selection every stat other than the composite metrics is
\* the archetype's base value (0 if absent) plus the sum of the statBonuses of
\* attire, mask, each accessory occurrence, height and body type
C17_BonusSum ==
  fn.pc \in {"derived", "again"}
    => /\ \A k \in StatNames(fn.presets) \ CompositeNames :
            StatOr0(fn.stats, k) = ExpectedStat(fn.presets, fn.sel, k)
       /\ \A k \in DOMAIN fn.stats \ CompositeNames : k \in StatNames(fn.presets)

\* the luchador with the cape and the belt twice: charisma 2 + 2, strength
\* 5 + 2, and no vitality, which no selected item carries
C17_Witness ==
  /\ fn.pc = "derived"
  /\ Field(fn.sel, "archetypeId") = S("luchador")
  /\ Field(fn.sel, "attireId") = S("cape")
  /\ Field(fn.sel, "accessoryIds") = Arr(<<S("belt"), S("belt")>>)
  /\ fn.stats["charisma"] = 4
  /\ fn.stats["strength"] = 7
  /\ fn.stats["technique"] = 1
  /\ "vitality" \notin DOMAIN fn.stats

(***************************************************************************)
(* Properties of the store for a client that sends one request at a time  *)
(***************************************************************************)
\* the request r is answered by this step
Answers(r) == req[r].pc # "done" /\ req'[r].pc = "done"

\* C7: a successful update changes, in the character it names, only the
\* fields supplied, re-derives the stats with a new selection, keeps id and
\* createdAt, refreshes updatedAt, and leaves every other character as it was
C7_UpdateFrame ==
  [][\A r \in Req :
       (req[r].kind = "update" /\ Answers(r) /\ req'[r].res.status = 200)
         => LET old == CharsOf(req[r].pre.doc)
                new == CharsOf(charsFile'.doc)
                i == FindIndex(old, req[r].id)
                p == req[r].payload
            IN  /\ charsFile'.st = "json"
                /\ i # 0
                /\ Len(new) = Len(old)
                /\ \A j \in 1..Len(old) : j # i => new[j] = old[j]
                /\ new[i].id = old[i].id
                /\ new[i].createdAt = old[i].createdAt
                /\ new[i].name = (IF Truthy(p.name) THEN String(p.name) ELSE old[i].name)
                /\ new[i].notes = (IF p.notes # Undef THEN p.notes ELSE old[i].notes)
                /\ new[i].selection =
                     (IF SelTruthy(p.selection) THEN p.selection ELSE old[i].selection)
                /\ new[i].derivedStats =
                     (IF SelTruthy(p.selection)
                        THEN deriveStats(loadPresets(presetsFile).presets, p.selection)
                        ELSE old[i].derivedStats)
                /\ new[i].updatedAt = clock'
                /\ req'[r].res.chars = <<new[i]>>]_vars

\* an update of notes alone has been stored at a later time than the creation
C7_Witness ==
  \E r \in Req :
    /\ req[r].kind = "update" /\ req[r].res.status = 200
    /\ req[r].payload = Payload(Undef, SelUndef, S("face"))
    /\ charsFile.st = "json"
    /\ \E i \in 1..Len(CharsOf(charsFile.doc)) :
         /\ CharsOf(charsFile.doc)[i] = req[r].res.chars[1]
         /\ CharsOf(charsFile.doc)[i].updatedAt > CharsOf(charsFile.doc)[i].createdAt
         /\ CharsOf(charsFile.doc)[i].name = "Rey"

\* the request that follows r
Following(r) == r + 1

\* C8: a delete of an id the collection does not hold answers 404, and the
\* list() after it returns what a list() before it returned
C8_DeleteMissing ==
  \A r \in Req :
    (/\ req[r].kind = "delete" /\ req[r].pc = "done"
     /\ FindIndex(CharsOf(req[r].pre.doc), req[r].id) = 0)
      => /\ req[r].res.status = 404
         /\ \A q \in Req :
              (q = Following(r) /\ req[q].kind = "list" /\ req[q].pc = "done")
                => req[q].res = listAlone(req[r].pre)

\* a delete of an unknown id on a store that holds Rey, and the list after it
C8_Witness ==
  \E r \in Req : \E q \in Req :
    /\ q = Following(r)
    /\ req[r].kind = "delete" /\ req[r].res.status = 404
    /\ req[r].pre = FileText(Collection(<<Rey>>))
    /\ req[q].kind = "list" /\ req[q].res = Response(200, <<Rey>>, <<>>)

\* C9: get(id) after a successful create returns the character create
\* returned, which carries the submitted name, selection and notes, the stats
\* derived from the selection, a generated id and both timestamps
C9_RoundTrip ==
  \A r \in Req : \A q \in Req :
    (/\ q = Following(r)
     /\ req[r].kind = "create" /\ req[r].res.status = 201
     /\ req[q].kind = "get" /\ req[q].pc = "done"
     /\ req[q].id = req[r].res.chars[1].id)
      => LET c == req[r].res.chars[1]
             p == req[r].payload
         IN  /\ req[q].res = Response(200, <<c>>, <<>>)
             /\ c.name = String(p.name)
             /\ c.selection = p.selection
             /\ c.notes = (IF Truthy(p.notes) THEN p.notes ELSE S(""))
             /\ c.derivedStats = deriveStats(loadPresets(presetsFile).presets, p.selection)
             /\ c.id >= FirstId
             /\ c.createdAt \in 0..MaxClock /\ c.updatedAt \in c.createdAt..MaxClock

\* a create with a numeric name and notes, and the get of its id, both answered
C9_Witness ==
  \E r \in Req : \E q \in Req :
    /\ q = Following(r)
    /\ req[r].kind = "create" /\ req[r].res.status = 201
    /\ req[r].payload = Payload(N(7), GoodSel, S("face"))
    /\ req[q].kind = "get" /\ req[q].res.status = 200
    /\ req[q].res.chars[1].name = "7"
    /\ req[q].res.chars[1].derivedStats["strength"] = 7

(***************************************************************************)
(* SpecRaw: the server finds characters.json in any state on disk         *)
(***************************************************************************)
\* the file absent, of zero bytes, holding text that is no JSON, or holding
\* JSON that is no collection
RawFiles ==
  {FileMissing, FileBroken(0), FileBroken(1), FileText(JsonNull), FileText(BareArray),
   FileText(JsonNumber), FileText(BareObject)}

InitRaw ==
  /\ presetsFile = Json(FullCatalog)
  /\ charsFile \in RawFiles
  /\ req = [r \in Req |-> IdleReq]
  /\ clock = 0
  /\ nextId = FirstId
  /\ fn = IdleFn
  /\ PRESETS = NullPresets
  /\ sync = SyncDown

SpecRaw == InitRaw /\ [][NextSeq]_vars

\* the first request of the run has been answered
FirstDone == req[1].pc = "done"

\* C10: on a file that is absent, empty or no valid collection, the first
\* operation treats the collection as empty (list: no character; get, update
\* and delete: 404; a valid create: 201 and a collection of that one
\* character) and leaves the file initialised
C10_InvalidFileIsEmpty ==
  (FirstDone /\ Quiet /\ req[2].pc = "idle" /\ InitialFile \in RawFiles)
    => /\ req[1].kind = "list" => req[1].res = Response(200, <<>>, <<>>)
       /\ req[1].kind \in {"get", "delete"} => req[1].res.status = 404
       /\ (req[1].kind = "update" /\ ~InvalidSelection(req[1])
             /\ req[1].payload # Payload(S(""), SelUndef, Undef))
            => req[1].res.status = 404
       /\ ValidCreate(req[1])
            => /\ req[1].res.status = 201
               /\ charsFile = FileText(Collection(req[1].res.chars))
       /\ req[1].kind \in {"list", "get", "delete"}
            => charsFile = FileText(Collection(<<>>))

(***************************************************************************)
(* presets.json is edited out of band                                     *)
(***************************************************************************)
CatFiles ==
  {Json(FullCatalog), Json(NoSkinCatalog), Json(CoreCatalog), Json(LegacyCatalog),
   Missing, Unparsable}

EditPresets ==
  /\ \E f \in CatFiles \ {presetsFile} : presetsFile' = f
  /\ UNCHANGED <<charsFile, req, clock, nextId, fn, PRESETS, sync>>

(***************************************************************************)
(* SpecCat: GET /api/presets and POST /api/characters of src/server.js    *)
(* while presets.json changes                                             *)
(***************************************************************************)
\* GET /api/presets arrives (line 191-193)
StartPresets(r) ==
  /\ req[r].pc = "idle"
  /\ req' = [req EXCEPT ![r] = [@ EXCEPT !.kind = "presets", !.pc = "presets",
                                        !.pre = charsFile]]
  /\ UNCHANGED <<presetsFile, charsFile, clock, nextId, fn, PRESETS, sync>>

\* lines 193-198: the body sent is kept in the slot
GetPresets(r) ==
  /\ req[r].pc = "presets" /\ req[r].kind = "presets"
  /\ LET lp == loadPresets(presetsFile)
     IN  req' = [req EXCEPT ![r] = [@ EXCEPT
                   !.pc = "done",
                   !.presets = lp.presets,
                   !.res = Response(IF lp.ok THEN 200 ELSE 500, <<>>, <<>>)]]
  /\ UNCHANGED <<presetsFile, charsFile, clock, nextId, fn, PRESETS, sync>>

CatCreates == {Payload(S("Kane"), GoodSel, Undef)}

\* the steps of a POST in flight
StepCreate(r) ==
  \/ CreatePresets(r)
  \/ EnsureRead(r)
  \/ EnsureOpen(r)
  \/ EnsureWrite(r)
  \/ CreateRead(r)
  \/ WriteOpen(r)
  \/ WriteDone(r)

InitCat ==
  /\ presetsFile \in CatFiles
  /\ charsFile \in {FileMissing, FileText(Collection(<<Rey>>))}
  /\ req = [r \in Req |-> IdleReq]
  /\ clock = 0
  /\ nextId = FirstId
  /\ fn = IdleFn
  /\ PRESETS = NullPresets
  /\ sync = SyncDown

NextCat ==
  \/ EditPresets
  \/ \E r \in Req :
       \/ NextSlot(r) /\ StartPresets(r)
       \/ NextSlot(r) /\ \E p \in CatCreates : StartCreate(r, p)
       \/ GetPresets(r)
       \/ StepCreate(r)

SpecCat == InitCat /\ [][NextCat]_vars

\* src/server.js keeps no catalog between requests: every answer of
\* GET /api/presets is the load of the resource as it is at that step, and a
\* POST is refused for the catalog only when that load fails
FreshCatalog ==
  [][\A r \in Req :
       (req[r].pc = "presets" /\ req'[r].pc # "presets")
         => LET lp == loadPresets(presetsFile)
            IN  /\ req[r].kind = "presets"
                     => /\ req'[r].res.status = (IF lp.ok THEN 200 ELSE 500)
                        /\ req'[r].presets = lp.presets
                /\ req[r].kind = "create" => (req'[r].res.status = 500 <=> ~lp.ok)]_vars

(***************************************************************************)
(* The synchronous variant, src/unnamed/part_000: every handler runs to   *)
(* its end in one step; PRESETS is loaded at startup and cached.          *)
(***************************************************************************)
RequiredSync == {"archetypes", "attire", "masks", "accessories", "heights", "bodyTypes"}

\* loadPresets of part_000 (lines 58-71): readJSONSafe gives null for a
\* missing, empty or unparsable file; no legacy key is resolved
loadPresetsSync(file) ==
  IF file.st # "json"
    THEN [ok |-> FALSE, presets |-> NoPresets]
    ELSE IF \E k \in RequiredSync : k \notin DOMAIN file.val
      THEN [ok |-> FALSE, presets |-> NoPresets]
      ELSE [ok |-> TRUE,
            presets |-> IF "skinColors" \in DOMAIN file.val
                          THEN file.val
                          ELSE Put(file.val, "skinColors", <<>>)]

\* a JSON array of records
ArrayOf(chars) == [t |-> "arr", has |-> FALSE, chars |-> chars]

\* readJSONSafe(CHARACTERS_PATH, []) followed by the Array.isArray test: the
\* records of the file, none when it is missing, empty, unparsable or no array
RecordsOf(file) == IF file.st = "json" /\ file.doc.t = "arr" THEN file.doc.chars ELSE <<>>

\* ensureCharactersFileSync (lines 74-93)
ensureCharactersFileSync(file) ==
  IF file.st = "json" /\ file.doc.t = "arr" THEN file ELSE FileText(ArrayOf(<<>>))

\* the record POST builds (lines 136-142)
SyncRecord(id, name, notes, selection, created_at) ==
  [id |-> id, name |-> name, notes |-> notes, selection |-> selection,
   created_at |-> created_at]

\* lines 96-106: the module is loaded
StartupSync ==
  /\ ~sync.up
  /\ LET lp == loadPresetsSync(presetsFile)
     IN  /\ PRESETS' = IF lp.ok THEN [loaded |-> TRUE, presets |-> lp.presets]
                                ELSE NullPresets
         /\ sync' = [sync EXCEPT !.up = TRUE,
                                 !.log = IF lp.ok THEN "Presets loaded OK"
                                                  ELSE "Presets load error"]
  /\ charsFile' = ensureCharactersFileSync(charsFile)
  /\ UNCHANGED <<presetsFile, req, clock, nextId, fn>>

\* GetPresetsSync without the retry of lines 113-119: a failed load stays
GetPresetsSyncNoRetry ==
  /\ sync.up
  /\ sync' = [sync EXCEPT !.kind = "presets",
                          !.status = IF PRESETS.loaded THEN 200 ELSE 500,
                          !.body = PRESETS.presets,
                          !.chars = <<>>]
  /\ UNCHANGED <<presetsFile, charsFile, req, clock, nextId, fn, PRESETS>>

\* GET /api/presets (lines 112-121)
GetPresetsSync ==
  /\ sync.up
  /\ LET lp == loadPresetsSync(presetsFile)
         now == IF PRESETS.loaded
                  THEN PRESETS
                  ELSE IF lp.ok THEN [loaded |-> TRUE, presets |-> lp.presets]
                                ELSE NullPresets
     IN  /\ PRESETS' = now
         /\ sync' = [sync EXCEPT !.kind = "presets",
                                 !.status = IF now.loaded THEN 200 ELSE 500,
                                 !.body = now.presets,
                                 !.chars = <<>>]
  /\ UNCHANGED <<presetsFile, charsFile, req, clock, nextId, fn>>

\* GET /api/_debug/presets (lines 158-161): the raw file, null when unreadable
DebugPresetsSync ==
  /\ sync.up
  /\ sync' = [sync EXCEPT !.kind = "debug",
                          !.status = 200,
                          !.body = IF presetsFile.st = "json" THEN presetsFile.val
                                                               ELSE NoPresets,
                          !.chars = <<>>]
  /\ UNCHANGED <<presetsFile, charsFile, req, clock, nextId, fn, PRESETS>>

\* GET /api/characters (lines 124-127)
ListSync ==
  /\ sync.up
  /\ sync' = [sync EXCEPT !.kind = "list", !.status = 200, !.body = NoPresets,
                          !.chars = RecordsOf(charsFile)]
  /\ UNCHANGED <<presetsFile, charsFile, req, clock, nextId, fn, PRESETS>>

\* POST /api/characters (lines 130-155).  writeJSON stages the text in
\* characters.json.tmp and renames it; when either call throws the handler
\* answers 500 and characters.json is as it was.
CreateSync(payload) ==
  /\ sync.up
  /\ nextId < FirstId + MaxReq
  /\ IF ~Truthy(payload.name) \/ ~SelTruthy(payload.selection)
       THEN /\ sync' = [sync EXCEPT !.kind = "create", !.status = 400, !.body = NoPresets,
                                    !.chars = <<>>]
            /\ UNCHANGED <<charsFile, clock, nextId>>
       ELSE \E now \in clock..MaxClock :
              LET record == SyncRecord(nextId, String(payload.name),
                                       NotesOrEmpty(payload.notes), payload.selection, now)
              IN  /\ clock' = now
                  /\ nextId' = nextId + 1
                  /\ \/ /\ charsFile' = FileText(ArrayOf(Append(RecordsOf(charsFile), record)))
                        /\ sync' = [sync EXCEPT !.kind = "create", !.status = 201,
                                                !.body = NoPresets, !.chars = <<record>>]
                     \/ /\ charsFile' = charsFile
                        /\ sync' = [sync EXCEPT !.kind = "create", !.status = 500,
                                                !.body = NoPresets, !.chars = <<>>]
  /\ UNCHANGED <<presetsFile, req, fn, PRESETS>>

SyncCreates == {Payload(S("Kane"), BadSel, Undef), Payload(Undef, GoodSel, S("face"))}

InitSync ==
  /\ presetsFile \in CatFiles
  /\ charsFile \in {FileMissing, FileBroken(0), FileText(ArrayOf(<<>>)),
                    FileText(Collection(<<>>))}
  /\ req = [r \in Req |-> IdleReq]
  /\ clock = 0
  /\ nextId = FirstId
  /\ fn = IdleFn
  /\ PRESETS = NullPresets
  /\ sync = SyncDown

NextSync ==
  \/ EditPresets
  \/ StartupSync
  \/ GetPresetsSync
  \/ DebugPresetsSync
  \/ ListSync
  \/ \E p \in SyncCreates : CreateSync(p)

SpecSync == InitSync /\ [][NextSync]_vars

\* C12: a failed catalog load is not cached: the process comes up whether or
\* not the load at startup failed, and a GET /api/presets that finds no
\* catalog loaded reads the resource again and answers with its catalog when
\* the resource is valid by then
C12_FailureNotCached ==
  [][/\ sync' # sync => sync'.up
     /\ (sync.up /\ sync' # sync /\ sync'.kind = "presets"
           /\ loadPresetsSync(presetsFile).ok)
          => /\ sync'.status = 200
             /\ ~PRESETS.loaded => sync'.body = loadPresetsSync(presetsFile).presets]_vars

\* the load at startup failed and a later GET /api/presets answered with the
\* catalog of the repaired resource
C12_Witness ==
  /\ sync.log = "Presets load error"
  /\ sync.kind = "presets" /\ sync.status = 200
  /\ sync.body = loadPresetsSync(presetsFile).presets
  /\ presetsFile = Json(CoreCatalog)

\* once a catalog is loaded no request of the synchronous variant replaces it
CacheNeverReplaced == [][PRESETS.loaded => PRESETS' = PRESETS]_vars

\* a POST whose write fails answers 500 and leaves characters.json as it was
SyncWriteFailureKeepsFile ==
  [][(sync' # sync /\ sync'.kind = "create" /\ sync'.status # 201)
       => charsFile' = charsFile]_vars

(***************************************************************************)
(* SpecSyncFair: the clients of the synchronous variant keep asking       *)
(***************************************************************************)
SpecSyncFair ==
  /\ SpecSync
  /\ WF_vars(StartupSync)
  /\ WF_vars(GetPresetsSync)
  /\ WF_vars(DebugPresetsSync)
  /\ WF_vars(ListSync)
  /\ WF_vars(\E p \in SyncCreates : CreateSync(p))

\* a catalog is loaded and presets.json now holds another valid catalog
Stale ==
  /\ PRESETS.loaded
  /\ loadPresetsSync(presetsFile).ok
  /\ PRESETS.presets # loadPresetsSync(presetsFile).presets

\* GET /api/presets has answered with the catalog presets.json holds
EditVisible ==
  /\ sync.kind = "presets" /\ sync.status = 200
  /\ sync.body = loadPresetsSync(presetsFile).presets

\* C18: after an out-of-band edit of a catalog that was loaded, requests
\* lead to a GET /api/presets that answers with the edited content
C18_EditBecomesVisible == Stale ~> EditVisible

(***************************************************************************)
(* SpecIO: src/server.js on a disk whose writes may fail.  fs.writeFile   *)
(* rejects either at the open (the file is as it was) or at the write     *)
(* after the truncating open (the file keeps the bytes written so far);   *)
(* the rejection lands in the catch of the handler.                       *)
(***************************************************************************)
\* the open of writeFile fails (EACCES, EMFILE, ...)
OpenFails(r) ==
  /\ req[r].pc \in {"eopen", "wopen"}
  /\ Respond(r, Response(500, <<>>, <<>>))
  /\ UNCHANGED <<presetsFile, charsFile, clock, nextId, fn, PRESETS, sync>>

\* the text being written by the request r
TextOf(r) == IF req[r].pc = "ewrite" THEN Collection(<<>>) ELSE req[r].out

\* the write after the open fails (ENOSPC, EIO, ...): n bytes of the text are
\* in the file, fewer than the text has
WriteFails(r) ==
  /\ req[r].pc \in {"ewrite", "wwrite"}
  /\ \E n \in 0..(Weight(TextOf(r)) - 1) : charsFile' = FileBroken(n)
  /\ Respond(r, Response(500, <<>>, <<>>))
  /\ UNCHANGED <<presetsFile, clock, nextId, fn, PRESETS, sync>>

NextIO == NextSeq \/ \E r \in Req : OpenFails(r) \/ WriteFails(r)

SpecIO == Init /\ [][NextIO]_vars

\* the write of the collection by a mutating request fails at this step
MutationWriteFails(r) ==
  /\ req[r].kind \in Mutating
  /\ req[r].pc \in {"wopen", "wwrite"}
  /\ req'[r].pc = "done"
  /\ req'[r].res.status # 200 /\ req'[r].res.status # 201

\* the file as the operation found it, initialised when it was absent
AsFound(file) == IF file.st = "missing" THEN FileText(Collection(<<>>)) ELSE file

\* C13: a create, update or delete whose write of the collection fails
\* answers with a failure and leaves characters.json with the content it had
\* when the operation started
C13_FailedWriteKeepsFile ==
  [][\A r \in Req :
       MutationWriteFails(r)
         => /\ req'[r].res.status = 500
            /\ charsFile' = AsFound(req[r].pre)]_vars

\* the same for a write that fails at the open
FailedOpenKeepsFile ==
  [][\A r \in Req :
       (MutationWriteFails(r) /\ req[r].pc = "wopen")
         => /\ req'[r].res.status = 500
            /\ charsFile' = AsFound(req[r].pre)]_vars

(***************************************************************************)
(* Further properties of the store under concurrent requests (Spec)       *)
(***************************************************************************)
\* the request has read the collection and not yet finished its write
InCycle(w) == req[w].kind \in Mutating /\ req[w].pc \in {"wopen", "wwrite"}

\* the mutating request r reads the collection at this step (lines 254, 283, 308)
CycleRead(r) == req[r].kind \in Mutating /\ req[r].pc = "read" /\ req'[r].pc # "read"

\* C15: no mutating request reads the collection between the read and the
\* write of another mutating request
C15_CyclesDoNotOverlap ==
  [][\A r \in Req : \A w \in Req \ {r} : CycleRead(r) => ~InCycle(w)]_vars

\* the characters a file holds, none when it holds no collection
StoredChars(file) == IF file.st = "json" THEN CharsOf(file.doc) ELSE <<>>

\* the character agrees with the catalog: its selection has no violation and
\* its derivedStats are the stats derived from that selection
Consistent(presets, c) ==
  /\ validateSelection(presets, c.selection) = <<>>
  /\ c.derivedStats = deriveStats(presets, c.selection)

\* C16: with the catalog fixed, every character in the collection has a
\* selection without violations and the derivedStats of that selection
C16_StoredConsistent ==
  loadPresets(presetsFile).ok
    => \A i \in 1..Len(StoredChars(charsFile)) :
         Consistent(loadPresets(presetsFile).presets, StoredChars(charsFile)[i])

\* Rey carries a new selection from an update, next to a created character
C16_Witness ==
  /\ Len(StoredChars(charsFile)) = 2
  /\ StoredChars(charsFile)[1].id = Rey.id
  /\ StoredChars(charsFile)[1].selection = OtherSel
  /\ StoredChars(charsFile)[1].derivedStats["strength"] = 7
  /\ StoredChars(charsFile)[1].derivedStats["charisma"] = 1
  /\ StoredChars(charsFile)[2].name = "Kane"

ReadOnly == {"list", "get", "init"}

\* C19: no step of list(), get(id) or the startup initialisation removes or
\* alters a character the file holds
C19_ReadOnlyKeepsChars ==
  [][\A r \in Req :
       (req[r].kind \in ReadOnly /\ req'[r] # req[r] /\ StoredChars(charsFile) # <<>>)
         => StoredChars(charsFile') = StoredChars(charsFile)]_vars

\* C20: once a delete has returned the removed character and nothing is in
\* flight any more, a list() does not return a character of that id
C20_DeletedStaysDeleted ==
  \A r \in Req :
    (req[r].kind = "delete" /\ req[r].pc = "done" /\ req[r].res.status = 200 /\ Quiet)
      => FindIndex(listAlone(charsFile).chars, req[r].id) = 0

====
